---- MODULE Spec2Model ----
(***************************************************************************)
(* rumqttd/src/lib.rs: Broker (orchestrator), Server (listener and accept   *)
(* loop), Connector (per-connection supervisor) and the router channel.     *)
(*                                                                          *)
(* Threads of control: the caller of Broker::start, the router thread, one  *)
(* thread per listener running a current-thread tokio runtime, and one      *)
(* tokio task per accepted connection.  Every await point of the source is  *)
(* a boundary between two actions; code between two await points runs as    *)
(* one action.                                                              *)
(***************************************************************************)
EXTENDS Integers, Sequences, FiniteSets, TLC

(***************************************************************************)
(* Bounds of the model.                                                     *)
(***************************************************************************)
\* Producers of the router channel (connection tasks and local links) the
\* broker serves with one listener; each further listener takes one away.
MaxProducers == 2

(***************************************************************************)
(* Configuration (Config.servers): listener name -> ServerSettings.         *)
(***************************************************************************)
None == "None"

\* Files that paths of the settings may name, and what File::open and the
\* parsers find there:
\*   missing     File::open fails;
\*   unreadable  the file opens and reading it fails;
\*   malformed   the content does not decode (PEM, PKCS#12);
\*   empty       the content decodes and holds no certificate or key;
\*   badkey      the content decodes and holds a key the TLS library refuses
\*               when the acceptor is built;
\*   good        what the path is expected to hold.
Paths == {"cert.pem", "key.pem", "ca.pem", "identity.p12", "missing.p12"}
FileKinds == {"missing", "unreadable", "malformed", "empty", "badkey", "good"}

\* The filesystem the listeners read at start-up.
Files ==
    [p \in Paths |-> IF p = "missing.p12" THEN "missing" ELSE "good"]

\* ServerSettings of lib.rs:102-114 (the fields the listener itself uses).
Settings(port, pkcs12_path, pkcs12_pass, ca_path, cert_path, key_path, delay) ==
    [port |-> port, pkcs12_path |-> pkcs12_path, pkcs12_pass |-> pkcs12_pass,
     ca_path |-> ca_path, cert_path |-> cert_path, key_path |-> key_path,
     next_connection_delay_ms |-> delay]

\* A plaintext listener, and one with TLS material: good PEM files and a
\* PKCS#12 bundle that does not exist.
PlainSettings == Settings(1883, None, None, None, None, None, 1)
OtherPlainSettings == Settings(1884, None, None, None, None, None, 1)
TlsSettings == Settings(8883, "missing.p12", "pass", "ca.pem", "cert.pem", "key.pem", 2)

Backends == {"use-rustls", "use-native-tls"}

\* Every way to configure the TLS material of a listener: each Option field
\* None or Some.
TlsConfigs ==
    { Settings(8883, p12, pass, ca, cert, key, 1) :
        p12 \in {None, "identity.p12"}, pass \in {None, "pass"},
        ca \in {None, "ca.pem"}, cert \in {None, "cert.pem"},
        key \in {None, "key.pem"} }

\* Every filesystem the material can be read from.
FileSystems == {fs \in [Paths -> FileKinds] : fs["missing.p12"] = "missing"}

\* The builds and configurations Init draws from: <<feature, Config.servers>>.
Deployments ==
    { <<"use-rustls", [b |-> TlsSettings]>>,
      <<"use-rustls", [a |-> PlainSettings, b |-> TlsSettings]>>,
      <<"use-native-tls", [a |-> PlainSettings, b |-> TlsSettings]>> }

\* How long after its sleep an accept may return, in the runs of Spec (a
\* client is always waiting) and of SpecClock (clients arrive late, too).
PromptAccepts == {0}
LateAccepts == {0, 1}

(***************************************************************************)
(* Results.                                                                 *)
(***************************************************************************)
Ok(v) == [ok |-> TRUE, val |-> v]
Err(e) == [ok |-> FALSE, val |-> e]

\* A faulty tlsNative: half of the material reported as an error.
tlsNativeRequiresBoth(cfg, fs) ==
    IF cfg.pkcs12_path # None /\ cfg.pkcs12_pass # None
    THEN IF fs[cfg.pkcs12_path] = "missing" THEN Err("ServerCertNotFound")
         ELSE IF fs[cfg.pkcs12_path] \in {"unreadable", "malformed", "empty"}
              THEN Err("InvalidServerCert")
         ELSE IF fs[cfg.pkcs12_path] = "badkey" THEN Err("Tls")
         ELSE Ok("Acceptor")
    ELSE IF cfg.pkcs12_path # None \/ cfg.pkcs12_pass # None
         THEN Err("ServerCertRequired")
    ELSE Ok(None)

(***************************************************************************)
(* Server::tls, feature use-native-tls (lib.rs:244-275).                    *)
(***************************************************************************)
tlsNative(cfg, fs) ==
    IF cfg.pkcs12_path # None /\ cfg.pkcs12_pass # None
    THEN \* lib.rs:252-254
         IF fs[cfg.pkcs12_path] = "missing" THEN Err("ServerCertNotFound")
         \* lib.rs:257-260
         ELSE IF fs[cfg.pkcs12_path] = "unreadable" THEN Err("InvalidServerCert")
         \* lib.rs:263-264
         ELSE IF fs[cfg.pkcs12_path] \in {"malformed", "empty"}
              THEN Err("InvalidServerCert")
         \* lib.rs:267: builder(identity).build()?
         ELSE IF fs[cfg.pkcs12_path] = "badkey" THEN Err("Tls")
         \* lib.rs:270-271
         ELSE Ok("Acceptor")
    ELSE Ok(None)

\* A faulty tlsRustls: the trusted-CA file checked before the key.
tlsRustlsCaBeforeKey(cfg, fs) ==
    IF cfg.cert_path = None THEN Ok(None)
    ELSE IF fs[cfg.cert_path] = "missing" THEN Err("ServerCertNotFound")
    ELSE IF fs[cfg.cert_path] \in {"unreadable", "malformed"} THEN Err("InvalidServerCert")
    ELSE IF cfg.ca_path # None /\ fs[cfg.ca_path] = "missing" THEN Err("CaFileNotFound")
    ELSE IF cfg.ca_path # None /\ fs[cfg.ca_path] \in {"unreadable", "malformed"}
         THEN Err("InvalidCACert")
    ELSE IF cfg.key_path = None THEN Err("ServerKeyRequired")
    ELSE IF fs[cfg.key_path] = "missing" THEN Err("ServerKeyNotFound")
    ELSE IF fs[cfg.key_path] \in {"unreadable", "malformed", "empty"}
         THEN Err("InvalidServerKey")
    ELSE IF fs[cfg.key_path] = "badkey" THEN Err("Tls")
    ELSE Ok("Acceptor")

\* A faulty tlsRustls: a certificate file that does not open reported as
\* invalid content.
tlsRustlsOpenErrorAsInvalid(cfg, fs) ==
    IF cfg.cert_path = None THEN Ok(None)
    ELSE IF fs[cfg.cert_path] \in {"missing", "unreadable", "malformed"}
         THEN Err("InvalidServerCert")
    ELSE IF cfg.key_path = None THEN Err("ServerKeyRequired")
    ELSE IF fs[cfg.key_path] = "missing" THEN Err("ServerKeyNotFound")
    ELSE IF fs[cfg.key_path] \in {"unreadable", "malformed", "empty"}
         THEN Err("InvalidServerKey")
    ELSE IF cfg.ca_path # None /\ fs[cfg.ca_path] = "missing" THEN Err("CaFileNotFound")
    ELSE IF cfg.ca_path # None /\ fs[cfg.ca_path] \in {"unreadable", "malformed"}
         THEN Err("InvalidCACert")
    ELSE IF fs[cfg.key_path] = "badkey" THEN Err("Tls")
    ELSE Ok("Acceptor")

(***************************************************************************)
(* Server::tls, feature use-rustls (lib.rs:277-323).  pemfile::certs and    *)
(* rsa_private_keys fail on content that does not decode and return an      *)
(* empty list for content without a section of their kind.                  *)
(***************************************************************************)
tlsRustls(cfg, fs) ==
    IF cfg.cert_path = None THEN Ok(None)
    \* lib.rs:282-285
    ELSE IF fs[cfg.cert_path] = "missing" THEN Err("ServerCertNotFound")
    ELSE IF fs[cfg.cert_path] \in {"unreadable", "malformed"} THEN Err("InvalidServerCert")
    \* lib.rs:288-293
    ELSE IF cfg.key_path = None THEN Err("ServerKeyRequired")
    ELSE IF fs[cfg.key_path] = "missing" THEN Err("ServerKeyNotFound")
    ELSE IF fs[cfg.key_path] \in {"unreadable", "malformed"} THEN Err("InvalidServerKey")
    \* lib.rs:296-299
    ELSE IF fs[cfg.key_path] = "empty" THEN Err("InvalidServerKey")
    \* lib.rs:307-314
    ELSE IF cfg.ca_path # None /\ fs[cfg.ca_path] = "missing" THEN Err("CaFileNotFound")
    ELSE IF cfg.ca_path # None /\ fs[cfg.ca_path] \in {"unreadable", "malformed"}
         THEN Err("InvalidCACert")
    \* lib.rs:320
    ELSE IF fs[cfg.key_path] = "badkey" THEN Err("Tls")
    \* lib.rs:321-322
    ELSE Ok("Acceptor")

tls(backend, cfg, fs) ==
    IF backend = "use-rustls" THEN tlsRustls(cfg, fs) ELSE tlsNative(cfg, fs)

(***************************************************************************)
(* State.                                                                   *)
(***************************************************************************)
VARIABLES
    backend,      \* the TLS backend the build selected (cfg feature)
    servers,      \* Config.servers
    files,        \* the filesystem: what each path holds
    brokerPc,     \* where the caller of Broker::start is
    brokerRouter, \* Broker.router is Some(router)
    exited,       \* the process has ended
    routerState,  \* the router's execution context
    registered,   \* connection ids registered with the router
    chan,         \* the router channel: messages sent and not yet received
    sent,         \* every message whose send succeeded, in arrival order
    observed,     \* the messages the router has processed, in order
    localSent,    \* messages sent through handles of router_handle / link
    srv,          \* per listener: its thread and accept loop
    tasks,        \* the per-connection tasks, in the order they were spawned
    acceptWaits,  \* how long after its sleep an accept may return
    producers     \* how many clients and local sends the run brings

vars == <<backend, servers, files, brokerPc, brokerRouter, exited, routerState, registered,
          chan, sent, observed, localSent, srv, tasks, acceptWaits, producers>>

brokerVars == <<brokerPc, brokerRouter>>
routerVars == <<routerState, registered, chan, sent, observed>>
configVars == <<backend, servers, files, acceptWaits, producers>>

Listeners == DOMAIN servers

\* Producers the run may still add.
ProducersLeft == Len(tasks) + localSent < producers

\* What link.state.clean() can return: the pending session state of the link,
\* here the publishes still in flight.
PendingStates == {<<>>, <<"publish">>}

\* What link.start() can return (remotelink::Error as new_connection sees it).
RunResults == {"Ok", "IoConnectionAborted", "Disconnect", "Other"}

\* Positions of a connection task (lib.rs:351-381 and 407-441).
LiveTaskPcs == {"spawned", "tls_accept", "link_new", "link_start"}
DoneTaskPcs == {"tls_failed", "link_new_failed", "returned_ok", "send_failed"}

TaskIds == 1..Len(tasks)
TasksOf(l) == {c \in TaskIds : tasks[c].srv = l}

\* A faulty Classify: the clean close taken for a close without will.
ClassifyCleanCloseNoWill(res, linkClean) ==
    CASE res = "Ok" -> <<TRUE, linkClean>>
      [] res = "IoConnectionAborted" -> <<FALSE, linkClean>>
      [] res = "Disconnect" -> <<FALSE, linkClean>>
      [] OTHER -> <<TRUE, linkClean>>

\* A faulty Classify: the session state not queried on the Disconnect path.
ClassifyDisconnectNoPending(res, linkClean) ==
    CASE res = "Ok" -> <<TRUE, linkClean>>
      [] res = "IoConnectionAborted" -> <<TRUE, linkClean>>
      [] res = "Disconnect" -> <<FALSE, <<>>>>
      [] OTHER -> <<TRUE, linkClean>>

(***************************************************************************)
(* Connector::new_connection, lib.rs:413-434: the classification of the    *)
(* link's run into (execute_will, pending).                                 *)
(***************************************************************************)
Classify(res, linkClean) ==
    CASE res = "Ok" -> <<TRUE, linkClean>>
      [] res = "IoConnectionAborted" -> <<TRUE, linkClean>>
      [] res = "Disconnect" -> <<FALSE, linkClean>>
      [] OTHER -> <<TRUE, linkClean>>

\* lib.rs:436-438: Event::Disconnect(Disconnection::new(..)) keyed by id.
\* conn names the task that built the message (history, not sent on the wire).
DisconnectMessage(conn, id, execute_will, pending) ==
    [kind |-> "Disconnect", conn |-> conn, id |-> id,
     execute_will |-> execute_will, pending |-> pending]

LocalMessage(n) ==
    [kind |-> "Local", conn |-> 0, id |-> n, execute_will |-> FALSE, pending |-> <<>>]

(***************************************************************************)
(* The router channel.  A send succeeds while the receiver exists and then  *)
(* queues the message behind the ones already queued; it fails once the     *)
(* receiver is gone.                                                        *)
(***************************************************************************)
ReceiverAlive == routerState # "stopped"

ChannelSend(queue, alive, m) ==
    IF alive THEN Ok(Append(queue, m)) ELSE Err("Send")

ChannelRecv(queue) == <<Head(queue), Tail(queue)>>

\* The id the router gives a connection that registers: the next one never
\* given before, `given` being the ids given so far.
NewId(given) == Cardinality(given) + 1

\* A faulty NextAcceptTimes: a loop that does not sleep.
NextAcceptTimesNoSleep(last, delay, waits) == {last + w : w \in waits}

\* lib.rs:329,387 then 339: time::sleep(delay) lasts at least delay, and the
\* accept that follows it returns some time after; the times the next accept
\* can return at, after an accept at `last`.
NextAcceptTimes(last, delay, waits) == {last + delay + w : w \in waits}

\* The threads and tasks of the broker run until the process ends.
ProcessAlive == ~exited

(***************************************************************************)
(* Init: Broker::new (lib.rs:164-173).                                      *)
(***************************************************************************)
InitBroker ==
    /\ brokerPc = "new"
    /\ brokerRouter = TRUE
    /\ exited = FALSE
    /\ routerState = "owned"
    /\ registered = {}
    /\ chan = <<>>
    /\ sent = <<>>
    /\ observed = <<>>
    /\ localSent = 0
    /\ srv = [l \in Listeners |->
                [pc |-> "unspawned", acceptor |-> None, count |-> 0,
                 first |-> 0, last |-> 0]]
    /\ tasks = <<>>

Init ==
    /\ \E d \in Deployments : backend = d[1] /\ servers = d[2]
    /\ files = Files
    /\ acceptWaits = PromptAccepts
    /\ producers = MaxProducers - (Cardinality(Listeners) - 1)
    /\ InitBroker

\* One TLS listener whose clients arrive at any time.
InitClock ==
    /\ backend = "use-rustls"
    /\ servers = [b |-> TlsSettings]
    /\ files = Files
    /\ acceptWaits = LateAccepts
    /\ producers = MaxProducers
    /\ InitBroker

\* Two plaintext listeners; the clients come to either, and local handles send.
InitRouter ==
    /\ backend = "use-rustls"
    /\ servers = [a |-> PlainSettings, c |-> OtherPlainSettings]
    /\ files = Files
    /\ acceptWaits = PromptAccepts
    /\ producers = MaxProducers
    /\ InitBroker

\* One listener, its TLS material configured in any way over any filesystem.
InitTls ==
    /\ backend \in Backends
    /\ servers \in {[b |-> cfg] : cfg \in TlsConfigs}
    /\ files \in FileSystems
    /\ acceptWaits = PromptAccepts
    /\ producers = MaxProducers
    /\ InitBroker

(***************************************************************************)
(* Broker::start (lib.rs:187-226).                                          *)
(***************************************************************************)
\* A faulty SpawnRouter: start goes on to the listeners without the router
\* thread; the router stays in the Broker and is never run.
SpawnRouterSkipped ==
    /\ brokerPc = "new"
    /\ brokerRouter
    /\ brokerPc' = "spawning"
    /\ UNCHANGED <<configVars, exited, brokerRouter, routerVars, localSent, srv, tasks>>

\* lib.rs:189-191, the spawn succeeds.
SpawnRouter ==
    /\ brokerPc = "new"
    /\ brokerRouter
    /\ brokerRouter' = FALSE
    /\ routerState' = "running"
    /\ brokerPc' = "spawning"
    /\ UNCHANGED <<configVars, exited, registered, chan, sent, observed, localSent, srv, tasks>>

\* lib.rs:191, the spawn fails: the closure that owns the router is dropped.
SpawnRouterFails ==
    /\ brokerPc = "new"
    /\ brokerRouter
    /\ brokerRouter' = FALSE
    /\ routerState' = "stopped"
    /\ chan' = <<>>
    /\ brokerPc' = "returned_err"
    /\ UNCHANGED <<configVars, exited, registered, sent, observed, localSent, srv, tasks>>

\* A faulty SpawnServer: the loop goes on after a spawn that failed.
SpawnServerAfterError(l) ==
    /\ brokerPc \in {"spawning", "returned_err"}
    /\ srv[l].pc = "unspawned"
    /\ srv' = [srv EXCEPT ![l].pc = "starting"]
    /\ UNCHANGED <<configVars, exited, brokerVars, routerVars, localSent, tasks>>

\* lib.rs:194-206, one iteration of the loop over config.servers.
SpawnServer(l) ==
    /\ brokerPc = "spawning"
    /\ srv[l].pc = "unspawned"
    /\ srv' = [srv EXCEPT ![l].pc = "starting"]
    /\ UNCHANGED <<configVars, exited, brokerVars, routerVars, localSent, tasks>>

\* lib.rs:206, the spawn of a listener thread fails.
SpawnServerFails(l) ==
    /\ brokerPc = "spawning"
    /\ srv[l].pc = "unspawned"
    /\ brokerPc' = "returned_err"
    /\ UNCHANGED <<configVars, exited, brokerRouter, routerVars, localSent, srv, tasks>>

\* A faulty AwaitSignal: start returns once the listeners are spawned.
AwaitSignalReturns ==
    /\ brokerPc = "spawning"
    /\ \A l \in Listeners : srv[l].pc # "unspawned"
    /\ brokerPc' = "returned_ok"
    /\ UNCHANGED <<configVars, exited, brokerRouter, routerVars, localSent, srv, tasks>>

\* lib.rs:209-223: every listener is spawned; block on ctrl_c.
AwaitSignal ==
    /\ brokerPc = "spawning"
    /\ \A l \in Listeners : srv[l].pc # "unspawned"
    /\ brokerPc' = "blocked"
    /\ UNCHANGED <<configVars, exited, brokerRouter, routerVars, localSent, srv, tasks>>

\* lib.rs:209-210 and 222: every listener is spawned; the build of the
\* caller's runtime fails, or the registration of the signal handler does, and
\* unwrap() panics in the caller. The threads spawned go on.
AwaitSignalPanics ==
    /\ brokerPc = "spawning"
    /\ \A l \in Listeners : srv[l].pc # "unspawned"
    /\ brokerPc' = "runtime_panicked"
    /\ UNCHANGED <<configVars, exited, brokerRouter, routerVars, localSent, srv, tasks>>

\* lib.rs:222-225: the interrupt arrives, start returns Ok(()).
CtrlC ==
    /\ brokerPc = "blocked"
    /\ brokerPc' = "returned_ok"
    /\ UNCHANGED <<configVars, exited, brokerRouter, routerVars, localSent, srv, tasks>>

\* Where the caller is once a call of Broker::start is over: it returned, it
\* panicked at lib.rs:210 or 222, or (a later call) at lib.rs:189.
EndedPcs == {"returned_ok", "returned_err", "runtime_panicked", "panicked"}

\* A faulty StartAgain: a second call makes a router and runs it.
StartAgainRespawns ==
    /\ ProcessAlive
    /\ brokerPc \in EndedPcs
    /\ routerState' = "running"
    /\ brokerPc' = "spawning"
    /\ UNCHANGED <<configVars, exited, brokerRouter, registered, chan, sent, observed,
                   localSent, srv, tasks>>

\* lib.rs:187-191, called again after a call that is over: the call takes
\* the router if the Broker has it and goes on as the first call did;
\* self.router.take().unwrap() panics if it has not.
StartAgain ==
    /\ ProcessAlive
    /\ brokerPc \in EndedPcs
    /\ IF brokerRouter
       THEN /\ brokerRouter' = FALSE
            /\ routerState' = "running"
            /\ brokerPc' = "spawning"
       ELSE /\ brokerPc' = "panicked"
            /\ UNCHANGED <<brokerRouter, routerState>>
    /\ UNCHANGED <<configVars, exited, registered, chan, sent, observed, localSent, srv, tasks>>

\* The caller, to which Broker::start has returned (or in which it
\* panicked), ends the process, and with it every thread and task.
ProcessExit ==
    /\ ~exited
    /\ brokerPc \in EndedPcs
    /\ exited' = TRUE
    /\ UNCHANGED <<configVars, brokerVars, routerVars, localSent, srv, tasks>>

(***************************************************************************)
(* Router thread and other producers.                                       *)
(***************************************************************************)
\* The router takes the next message of its channel and processes it.
RouterRecv ==
    /\ ProcessAlive
    /\ routerState = "running"
    /\ chan # <<>>
    /\ LET r == ChannelRecv(chan) IN
        /\ chan' = r[2]
        /\ observed' = Append(observed, r[1])
        /\ registered' = IF r[1].kind = "Disconnect"
                         THEN registered \ {r[1].id} ELSE registered
    /\ UNCHANGED <<configVars, exited, brokerVars, routerState, sent, localSent, srv, tasks>>

\* The router's thread ends; its receiver and what is queued are dropped.
RouterStops ==
    /\ ProcessAlive
    /\ routerState = "running"
    /\ routerState' = "stopped"
    /\ chan' = <<>>
    /\ UNCHANGED <<configVars, exited, brokerVars, registered, sent, observed, localSent, srv, tasks>>

\* lib.rs:175-185: a send through a handle cloned by router_handle / link.
LocalSend ==
    /\ ProcessAlive
    /\ ProducersLeft
    /\ localSent' = localSent + 1
    /\ LET r == ChannelSend(chan, ReceiverAlive, LocalMessage(localSent + 1)) IN
        /\ chan' = IF r.ok THEN r.val ELSE chan
        /\ sent' = IF r.ok THEN Append(sent, LocalMessage(localSent + 1)) ELSE sent
    /\ UNCHANGED <<configVars, exited, brokerVars, routerState, registered, observed, srv, tasks>>

(***************************************************************************)
(* Server::start (lib.rs:325-389).                                          *)
(***************************************************************************)
\* lib.rs:196-197: the build of the listener thread's runtime fails and
\* unwrap() panics in the thread, before Server::start is called.
ServerRuntimePanics(l) ==
    /\ ProcessAlive
    /\ srv[l].pc = "starting"
    /\ srv' = [srv EXCEPT ![l].pc = "runtime_panicked"]
    /\ UNCHANGED <<configVars, exited, brokerVars, routerVars, localSent, tasks>>

\* lib.rs:328: TcpListener::bind fails, `?` returns the error.
BindFails(l) ==
    /\ ProcessAlive
    /\ srv[l].pc = "starting"
    /\ srv' = [srv EXCEPT ![l].pc = "bind_failed"]
    /\ UNCHANGED <<configVars, exited, brokerVars, routerVars, localSent, tasks>>

\* A faulty StartResult: the listener falls back to plaintext.
StartResultPlaintextFallback(r) ==
    IF r.ok THEN [pc |-> "accepting", acceptor |-> r.val]
    ELSE [pc |-> "accepting", acceptor |-> None]

\* lib.rs:328-336: the bind succeeds, then self.tls()? is resolved once; the
\* listener goes on to accept, or has failed on its TLS material.
StartResult(r) ==
    IF r.ok THEN [pc |-> "accepting", acceptor |-> r.val]
    ELSE [pc |-> "failed", acceptor |-> None]

Bound(l) ==
    /\ ProcessAlive
    /\ srv[l].pc = "starting"
    /\ LET s == StartResult(tls(backend, servers[l], files)) IN
        srv' = [srv EXCEPT ![l].pc = s.pc, ![l].acceptor = s.acceptor]
    /\ UNCHANGED <<configVars, exited, brokerVars, routerVars, localSent, tasks>>

\* The accept loop is in listener.accept(), or in the sleep before it.
AtAccept(l) == srv[l].pc = "accepting"

\* The times, on the listener's clock, the accept of this iteration can return
\* at: the clock starts with the first accept.
AcceptTimes(l) ==
    IF srv[l].count = 0 THEN {0}
    ELSE NextAcceptTimes(srv[l].last, servers[l].next_connection_delay_ms, acceptWaits)

\* lib.rs:342-351: task::spawn queues the task, which owns the clones made
\* for it; its body has not run.
NewTask(l, acceptor) ==
    [srv |-> l, pc |-> "spawned", acceptor |-> acceptor, connector |-> FALSE,
     id |-> 0, res |-> None, clean |-> <<>>, sends |-> 0]

\* A faulty Accept: the loop awaits the connection before it accepts the next.
AcceptServesInline(l) ==
    /\ ProcessAlive
    /\ AtAccept(l)
    /\ ProducersLeft
    /\ \A c \in TasksOf(l) : tasks[c].pc \notin LiveTaskPcs
    /\ tasks' = Append(tasks, NewTask(l, srv[l].acceptor))
    /\ \E t \in AcceptTimes(l) :
        srv' = [srv EXCEPT ![l].count = @ + 1,
                           ![l].first = IF srv[l].count = 0 THEN t ELSE @,
                           ![l].last = t]
    /\ UNCHANGED <<configVars, exited, brokerVars, routerVars, localSent>>

\* A faulty Accept: the acceptor moved into the first task, not cloned.
AcceptMovesAcceptor(l) ==
    /\ ProcessAlive
    /\ AtAccept(l)
    /\ ProducersLeft
    /\ tasks' = Append(tasks, NewTask(l, srv[l].acceptor))
    /\ \E t \in AcceptTimes(l) :
        srv' = [srv EXCEPT ![l].count = @ + 1,
                           ![l].first = IF srv[l].count = 0 THEN t ELSE @,
                           ![l].last = t,
                           ![l].acceptor = None]
    /\ UNCHANGED <<configVars, exited, brokerVars, routerVars, localSent>>

\* lib.rs:339-387: accept returns a stream; spawn its task; count += 1; sleep.
Accept(l) ==
    /\ ProcessAlive
    /\ AtAccept(l)
    /\ ProducersLeft
    /\ tasks' = Append(tasks, NewTask(l, srv[l].acceptor))
    /\ \E t \in AcceptTimes(l) :
        srv' = [srv EXCEPT ![l].count = @ + 1,
                           ![l].first = IF srv[l].count = 0 THEN t ELSE @,
                           ![l].last = t]
    /\ UNCHANGED <<configVars, exited, brokerVars, routerVars, localSent>>

\* A faulty Dropped: tasks outlive the runtime they were spawned on.
DroppedRunsOn(t) == t

\* What becomes of a task when its listener's runtime is dropped.
Dropped(t) == IF t.pc \in LiveTaskPcs THEN [t EXCEPT !.pc = "abandoned"] ELSE t

\* lib.rs:339 with 201-205: accept returns an error, start returns it, block_on
\* returns and the runtime is dropped with the tasks still on it.
AcceptFails(l) ==
    /\ ProcessAlive
    /\ AtAccept(l)
    /\ srv' = [srv EXCEPT ![l].pc = "dead"]
    /\ tasks' = [c \in TaskIds |-> IF tasks[c].srv = l THEN Dropped(tasks[c]) ELSE tasks[c]]
    /\ UNCHANGED <<configVars, exited, brokerVars, routerVars, localSent>>

(***************************************************************************)
(* The connection task (lib.rs:351-381) and Connector::new_connection       *)
(* (lib.rs:407-441).                                                        *)
(***************************************************************************)
\* A faulty Started: every connection starts with a TLS handshake.
StartedAlwaysHandshakes(t) == [t EXCEPT !.pc = "tls_accept"]

\* lib.rs:352-377 and 407-412: the body of the task up to its first await,
\* acceptor.accept(stream) with an acceptor, RemoteLink::new in the Connector
\* without.
Started(t) ==
    [t EXCEPT !.pc = IF t.acceptor # None THEN "tls_accept" ELSE "link_new",
              !.connector = (t.acceptor = None)]

\* The runtime polls the spawned task for the first time.
TaskStarts(c) ==
    /\ ProcessAlive
    /\ tasks[c].pc = "spawned"
    /\ tasks' = [tasks EXCEPT ![c] = Started(@)]
    /\ UNCHANGED <<configVars, exited, brokerVars, routerVars, localSent, srv>>

\* lib.rs:357-358,367,377: the TLS handshake succeeds; a Connector is made.
TlsAccepted(c) ==
    /\ ProcessAlive
    /\ tasks[c].pc = "tls_accept"
    /\ tasks' = [tasks EXCEPT ![c].pc = "link_new", ![c].connector = TRUE]
    /\ UNCHANGED <<configVars, exited, brokerVars, routerVars, localSent, srv>>

\* A faulty TlsFails: the handshake error returned to the accept loop.
TlsFailsStopsListener(c) ==
    /\ ProcessAlive
    /\ tasks[c].pc = "tls_accept"
    /\ tasks' = [tasks EXCEPT ![c].pc = "tls_failed"]
    /\ srv' = [srv EXCEPT ![tasks[c].srv].pc = "dead"]
    /\ UNCHANGED <<configVars, exited, brokerVars, routerVars, localSent>>

\* lib.rs:359-365: the TLS handshake fails; the task returns.
TlsFailed(t) == [t EXCEPT !.pc = "tls_failed"]

TlsFails(c) ==
    /\ ProcessAlive
    /\ tasks[c].pc = "tls_accept"
    /\ tasks' = [tasks EXCEPT ![c] = TlsFailed(@)]
    /\ UNCHANGED <<configVars, exited, brokerVars, routerVars, localSent, srv>>

\* lib.rs:412: RemoteLink::new succeeds; the router registered the connection
\* and gave it an id.
LinkNewOk(c) ==
    /\ ProcessAlive
    /\ tasks[c].pc = "link_new"
    /\ routerState = "running"
    /\ LET id == NewId({tasks[d].id : d \in TaskIds} \ {0}) IN
        /\ registered' = registered \cup {id}
        /\ tasks' = [tasks EXCEPT ![c].pc = "link_start", ![c].id = id]
    /\ UNCHANGED <<configVars, exited, brokerVars, routerState, chan, sent, observed, localSent, srv>>

\* A faulty LinkNewFails: a Disconnect event sent for the failed handshake.
LinkNewFailsNotifying(c) ==
    /\ ProcessAlive
    /\ tasks[c].pc = "link_new"
    /\ LET m == DisconnectMessage(c, tasks[c].id, TRUE, <<>>)
           r == ChannelSend(chan, ReceiverAlive, m)
       IN /\ chan' = IF r.ok THEN r.val ELSE chan
          /\ sent' = IF r.ok THEN Append(sent, m) ELSE sent
    /\ tasks' = [tasks EXCEPT ![c].pc = "link_new_failed"]
    /\ UNCHANGED <<configVars, exited, brokerVars, routerState, registered, observed, localSent, srv>>

\* lib.rs:412: RemoteLink::new fails and `?` returns the error (lib.rs:378-380
\* logs it).
LinkNewFailed(t) == [t EXCEPT !.pc = "link_new_failed"]

LinkNewFails(c) ==
    /\ ProcessAlive
    /\ tasks[c].pc = "link_new"
    /\ tasks' = [tasks EXCEPT ![c] = LinkNewFailed(@)]
    /\ UNCHANGED <<configVars, exited, brokerVars, routerVars, localSent, srv>>

\* A faulty AfterSend: the connector tries the send again when it failed.
AfterSendRetries(t, r) ==
    [t EXCEPT !.pc = IF r.ok THEN "returned_ok" ELSE "link_start",
              !.sends = @ + 1]

\* lib.rs:439-440: what new_connection returns after the send.
AfterSend(t, r) ==
    [t EXCEPT !.pc = IF r.ok THEN "returned_ok" ELSE "send_failed",
              !.sends = @ + 1]

\* A faulty LinkExits: the path of a run that returned Ok ends without an event.
LinkExitsSilentOnOk(c, res, clean) ==
    /\ ProcessAlive
    /\ tasks[c].pc = "link_start"
    /\ LET cl == Classify(res, clean)
           m == DisconnectMessage(c, tasks[c].id, cl[1], cl[2])
           r == IF res = "Ok" THEN Err("NotSent") ELSE ChannelSend(chan, ReceiverAlive, m)
       IN /\ chan' = IF r.ok THEN r.val ELSE chan
          /\ sent' = IF r.ok THEN Append(sent, m) ELSE sent
          /\ tasks' = [tasks EXCEPT
                          ![c] = IF res = "Ok"
                                 THEN [@ EXCEPT !.res = res, !.clean = clean,
                                                !.pc = "returned_ok"]
                                 ELSE AfterSend([@ EXCEPT !.res = res, !.clean = clean], r)]
    /\ UNCHANGED <<configVars, exited, brokerVars, routerState, registered, observed, localSent, srv>>

\* A faulty LinkExits: a run that ended in an error returns the error to the
\* accept loop once its event is sent, and the loop and its runtime end.
LinkExitsRunErrorStopsListener(c, res, clean) ==
    /\ ProcessAlive
    /\ tasks[c].pc = "link_start"
    /\ LET cl == Classify(res, clean)
           m == DisconnectMessage(c, tasks[c].id, cl[1], cl[2])
           r == ChannelSend(chan, ReceiverAlive, m)
           stops == res # "Ok" /\ r.ok
       IN /\ chan' = IF r.ok THEN r.val ELSE chan
          /\ sent' = IF r.ok THEN Append(sent, m) ELSE sent
          /\ tasks' = [d \in TaskIds |->
                          IF d = c
                          THEN AfterSend([tasks[d] EXCEPT !.res = res, !.clean = clean], r)
                          ELSE IF stops /\ tasks[d].srv = tasks[c].srv
                          THEN Dropped(tasks[d])
                          ELSE tasks[d]]
          /\ srv' = IF stops THEN [srv EXCEPT ![tasks[c].srv].pc = "dead"] ELSE srv
    /\ UNCHANGED <<configVars, exited, brokerVars, routerState, registered, observed, localSent>>

\* lib.rs:413-440: link.start() returns res with the link's session state as
\* the run left it, clean; classify, build the event, send.
LinkExits(c, res, clean) ==
    /\ ProcessAlive
    /\ tasks[c].pc = "link_start"
    /\ LET cl == Classify(res, clean)
           m == DisconnectMessage(c, tasks[c].id, cl[1], cl[2])
           r == ChannelSend(chan, ReceiverAlive, m)
       IN /\ chan' = IF r.ok THEN r.val ELSE chan
          /\ sent' = IF r.ok THEN Append(sent, m) ELSE sent
          /\ tasks' = [tasks EXCEPT
                          ![c] = AfterSend([@ EXCEPT !.res = res, !.clean = clean], r)]
    /\ UNCHANGED <<configVars, exited, brokerVars, routerState, registered, observed, localSent, srv>>

(***************************************************************************)
(* Specification.                                                           *)
(***************************************************************************)
Next ==
    \/ SpawnRouter
    \/ SpawnRouterFails
    \/ \E l \in Listeners : SpawnServer(l)
    \/ \E l \in Listeners : SpawnServerFails(l)
    \/ AwaitSignal
    \/ AwaitSignalPanics
    \/ CtrlC
    \/ StartAgain
    \/ ProcessExit
    \/ RouterRecv
    \/ RouterStops
    \/ LocalSend
    \/ \E l \in Listeners : ServerRuntimePanics(l)
    \/ \E l \in Listeners : BindFails(l)
    \/ \E l \in Listeners : Bound(l)
    \/ \E l \in Listeners : Accept(l)
    \/ \E l \in Listeners : AcceptFails(l)
    \/ \E c \in TaskIds : TaskStarts(c)
    \/ \E c \in TaskIds : TlsAccepted(c)
    \/ \E c \in TaskIds : TlsFails(c)
    \/ \E c \in TaskIds : LinkNewOk(c)
    \/ \E c \in TaskIds : LinkNewFails(c)
    \/ \E c \in TaskIds, res \in RunResults, clean \in PendingStates :
          LinkExits(c, res, clean)

Spec == Init /\ [][Next]_vars

\* The broker on the clock of its listener, with a caller that calls start
\* once and does not end the process.
NextClock ==
    \/ SpawnRouter
    \/ SpawnRouterFails
    \/ \E l \in Listeners : SpawnServer(l)
    \/ \E l \in Listeners : SpawnServerFails(l)
    \/ AwaitSignal
    \/ AwaitSignalPanics
    \/ CtrlC
    \/ RouterRecv
    \/ RouterStops
    \/ LocalSend
    \/ \E l \in Listeners : ServerRuntimePanics(l)
    \/ \E l \in Listeners : BindFails(l)
    \/ \E l \in Listeners : Bound(l)
    \/ \E l \in Listeners : Accept(l)
    \/ \E l \in Listeners : AcceptFails(l)
    \/ \E c \in TaskIds : TaskStarts(c)
    \/ \E c \in TaskIds : TlsAccepted(c)
    \/ \E c \in TaskIds : TlsFails(c)
    \/ \E c \in TaskIds : LinkNewOk(c)
    \/ \E c \in TaskIds : LinkNewFails(c)
    \/ \E c \in TaskIds, res \in RunResults, clean \in PendingStates :
          LinkExits(c, res, clean)

SpecClock == InitClock /\ [][NextClock]_vars

\* The producers of the router channel and the router: a caller that calls
\* start once, listeners that bind and accept, connections that get through
\* their handshake and leave no pending state, local handles, and the router.
NextRouter ==
    \/ SpawnRouter
    \/ SpawnRouterFails
    \/ \E l \in Listeners : SpawnServer(l)
    \/ AwaitSignal
    \/ CtrlC
    \/ ProcessExit
    \/ RouterRecv
    \/ RouterStops
    \/ LocalSend
    \/ \E l \in Listeners : Bound(l)
    \/ \E l \in Listeners : Accept(l)
    \/ \E c \in TaskIds : TaskStarts(c)
    \/ \E c \in TaskIds : LinkNewOk(c)
    \/ \E c \in TaskIds, res \in RunResults : LinkExits(c, res, <<>>)

\* lib.rs:190-191: the router runs on a thread of its own, which the system
\* schedules: it does not wait for ever with a message to take.
SpecRouter == InitRouter /\ [][NextRouter]_vars /\ WF_vars(RouterRecv)

\* The start of a listener and of its connections, up to the Connector.
NextTls ==
    \/ SpawnRouter
    \/ \E l \in Listeners : SpawnServer(l)
    \/ \E l \in Listeners : Bound(l)
    \/ \E l \in Listeners : Accept(l)
    \/ \E c \in TaskIds : TaskStarts(c)
    \/ \E c \in TaskIds : TlsAccepted(c)
    \/ \E c \in TaskIds : TlsFails(c)

SpecTls == InitTls /\ [][NextTls]_vars

(***************************************************************************)
(* Properties.                                                              *)
(***************************************************************************)
\* The places in `sent` of the Disconnect events that task c put there.
EventsOf(c) ==
    {i \in 1..Len(sent) : sent[i].kind = "Disconnect" /\ sent[i].conn = c}

\* Task c's link handshake succeeded and its link's run has ended.
Exited(c) == tasks[c].pc \in {"returned_ok", "send_failed"}

DisconnectEvents == {i \in 1..Len(sent) : sent[i].kind = "Disconnect"}

\* C1, as stated: every connection whose handshake succeeded and whose run has
\* ended has exactly one Disconnect event on the router channel, keyed by the
\* id of its handshake.
C1_ExactlyOneOnChannel ==
    \A c \in TaskIds :
        Exited(c) =>
            /\ Cardinality(EventsOf(c)) = 1
            /\ \A i \in EventsOf(c) : sent[i].id = tasks[c].id

\* C1, amended: such a connection has built and sent exactly one Disconnect
\* event, keyed by the id of its handshake; the event is on the router channel
\* exactly once when that send succeeded and not at all when it failed; and a
\* connection whose run has not ended has sent none.
C1_ExactlyOneSend ==
    \A c \in TaskIds :
        /\ Exited(c) => tasks[c].sends = 1 /\ tasks[c].id # 0
        /\ ~Exited(c) => tasks[c].sends = 0 /\ EventsOf(c) = {}
        /\ tasks[c].pc = "returned_ok" => Cardinality(EventsOf(c)) = 1
        /\ tasks[c].pc = "send_failed" => EventsOf(c) = {}
        /\ \A i \in EventsOf(c) : sent[i].id = tasks[c].id

\* Two connections have run to their end on different paths, one with an error
\* that is none of the named ones, and each has its one event under its own id.
C1_Witness ==
    \E c, d \in TaskIds :
        /\ c # d
        /\ tasks[c].pc = "returned_ok" /\ tasks[c].res = "Other"
        /\ tasks[d].pc = "returned_ok" /\ tasks[d].res = "Ok"
        /\ tasks[c].id # tasks[d].id
        /\ Cardinality(EventsOf(c)) = 1 /\ Cardinality(EventsOf(d)) = 1

\* C2: the execute_will flag of an emitted Disconnect event is false exactly
\* when the link's run ended with the explicit Disconnect error.
C2_ExecuteWill ==
    \A i \in DisconnectEvents :
        sent[i].execute_will = (tasks[sent[i].conn].res # "Disconnect")

\* A clean close (ConnectionAborted) was reported with the will to execute and
\* a client-requested disconnect without.
C2_Witness ==
    \E i, j \in DisconnectEvents :
        /\ tasks[sent[i].conn].res = "IoConnectionAborted" /\ sent[i].execute_will
        /\ tasks[sent[j].conn].res = "Disconnect" /\ ~sent[j].execute_will

\* C3: the pending value of an emitted Disconnect event is the link's session
\* state as its run left it, whatever the run returned.
C3_Pending ==
    \A i \in DisconnectEvents :
        sent[i].pending = tasks[sent[i].conn].clean

\* Two events carry the same non-empty pending state, one with the will to
\* execute and one without.
C3_Witness ==
    \E i, j \in DisconnectEvents :
        /\ sent[i].pending = <<"publish">> /\ sent[j].pending = <<"publish">>
        /\ sent[i].execute_will /\ ~sent[j].execute_will
        /\ tasks[sent[j].conn].res = "Disconnect"

\* C4: a connection whose link handshake failed has returned the error without
\* running the link and without sending a Disconnect event.
C4_NoEventOnHandshakeFailure ==
    \A c \in TaskIds :
        tasks[c].pc = "link_new_failed" =>
            /\ EventsOf(c) = {}
            /\ tasks[c].sends = 0
            /\ tasks[c].res = None
            /\ tasks[c].id = 0

\* A handshake failed while the router was running and a sibling's event was
\* on the channel.
C4_Witness ==
    \E c, d \in TaskIds :
        /\ tasks[c].pc = "link_new_failed"
        /\ tasks[d].pc = "returned_ok"
        /\ routerState = "running"
        /\ Len(sent) = 1

\* Every task but c is as it was, and no task was added.
OthersUnchanged(c) ==
    /\ Len(tasks') = Len(tasks)
    /\ \A d \in TaskIds \ {c} : tasks'[d] = tasks[d]

\* C5: a failed TLS handshake ends only its connection's task: no Connector
\* was made and no Disconnect event is ever sent for it, and the step that
\* fails leaves the accept loop, the channel and every other task as they were.
C5_TlsFailureIsLocal ==
    /\ [](\A c \in TaskIds :
            tasks[c].pc = "tls_failed" =>
                /\ ~tasks[c].connector
                /\ tasks[c].id = 0 /\ tasks[c].sends = 0
                /\ EventsOf(c) = {}
                /\ srv[tasks[c].srv].acceptor # None)
    /\ [][\A c \in TaskIds :
            (tasks[c].pc = "tls_accept" /\ tasks'[c].pc = "tls_failed") =>
                /\ srv' = srv
                /\ sent' = sent /\ chan' = chan
                /\ OthersUnchanged(c)]_vars

\* On a TLS listener that is still accepting, a connection failed its TLS
\* handshake and a connection accepted after it was served to its end.
C5_Witness ==
    \E c, d \in TaskIds :
        /\ c < d /\ tasks[c].srv = tasks[d].srv
        /\ tasks[c].pc = "tls_failed"
        /\ tasks[d].pc = "returned_ok"
        /\ srv[tasks[c].srv].pc = "accepting"
        /\ srv[tasks[c].srv].acceptor # None

\* C6: the N-th accept of a listener is at least (N-1) * D after its first,
\* D the listener's inter-accept delay.
C6_AcceptSpacing ==
    \A l \in Listeners :
        srv[l].count >= 1 =>
            srv[l].last - srv[l].first >=
                (srv[l].count - 1) * servers[l].next_connection_delay_ms

\* A second accept followed a connection whose task had failed, later than
\* the delay alone asks for.
C6_Witness ==
    \E l \in Listeners :
        /\ srv[l].count = 2
        /\ srv[l].last - srv[l].first > servers[l].next_connection_delay_ms
        /\ \E c \in TasksOf(l) : tasks[c].pc = "tls_failed"

\* The router can receive no more: its context has ended or the process has.
RouterGone == routerState = "stopped" \/ ~ProcessAlive

TaskCanStep(d) ==
    CASE tasks[d].pc = "spawned" -> ENABLED TaskStarts(d)
      [] tasks[d].pc = "tls_accept" -> ENABLED TlsAccepted(d) /\ ENABLED TlsFails(d)
      [] tasks[d].pc = "link_new" ->
            /\ ENABLED LinkNewFails(d)
            /\ routerState = "running" => ENABLED LinkNewOk(d)
      [] tasks[d].pc = "link_start" ->
            \A res \in RunResults, clean \in PendingStates : ENABLED LinkExits(d, res, clean)
      [] OTHER -> TRUE

\* The faults of a connection task: its TLS handshake failed, its link
\* handshake failed, its link's run ended in an error, or its send to the
\* router failed.
Faulted(t) ==
    \/ t.pc \in {"tls_failed", "link_new_failed", "send_failed"}
    \/ t.pc = "returned_ok" /\ t.res # "Ok"

\* The Disconnect event of task d, from what its link's run left.
OwnEvent(d) ==
    LET cl == Classify(tasks[d].res, tasks[d].clean)
    IN DisconnectMessage(d, tasks[d].id, cl[1], cl[2])

\* C8: the step in which a task faults (TLS handshake, link handshake, link
\* run error, router send) changes no other task, no accept loop, and neither
\* the broker, the router's context nor the life of the process; a task is
\* abandoned, and an accept loop ends, only in a step in which that loop's own
\* accept failed and no task faulted; whatever its siblings did, a live task
\* can take each of its next steps and an accepting loop can accept; and a
\* task whose run ends sends its own event, which is then the last message on
\* the channel if the router's receiver exists.
C8_FaultIsolation ==
    /\ [][\A c \in TaskIds :
            (tasks[c].pc \in LiveTaskPcs /\ Faulted(tasks'[c])) =>
                /\ srv' = srv
                /\ OthersUnchanged(c)
                /\ UNCHANGED <<brokerVars, routerState, registered, observed, exited>>]_vars
    /\ [][\A d \in TaskIds :
            (tasks[d].pc \in LiveTaskPcs /\ tasks'[d].pc = "abandoned") =>
                /\ srv[tasks[d].srv].pc = "accepting"
                /\ srv'[tasks[d].srv].pc = "dead"
                /\ \A c \in TaskIds : Faulted(tasks'[c]) = Faulted(tasks[c])]_vars
    /\ [][\A l \in Listeners :
            (srv[l].pc = "accepting" /\ srv'[l].pc # "accepting") =>
                /\ srv'[l].pc = "dead"
                /\ \A c \in TaskIds : Faulted(tasks'[c]) = Faulted(tasks[c])]_vars
    /\ [](\A d \in TaskIds : ProcessAlive => TaskCanStep(d))
    /\ [](\A l \in Listeners :
            (ProcessAlive /\ srv[l].pc = "accepting" /\ ProducersLeft) =>
                ENABLED Accept(l))
    /\ [][\A d \in TaskIds :
            (tasks[d].pc = "link_start" /\ tasks'[d].pc \notin {"link_start", "abandoned"}) =>
                /\ tasks'[d].pc \in {"returned_ok", "send_failed"}
                /\ tasks'[d].sends = 1
                /\ ReceiverAlive =>
                      /\ tasks'[d].pc = "returned_ok"
                      /\ sent' = Append(sent, OwnEvent(d)')
                      /\ chan' = Append(chan, OwnEvent(d)')]_vars

\* On one listener, still accepting, a connection's run ended in an error and
\* its event went to the router; a sibling whose run ended after that sent its
\* own event, which the router received after the first.
C8_Witness ==
    \E c, d \in TaskIds :
        /\ c # d /\ tasks[c].srv = tasks[d].srv
        /\ tasks[c].pc = "returned_ok" /\ tasks[c].res = "Other"
        /\ tasks[d].pc = "returned_ok" /\ tasks[d].res = "Ok"
        /\ \E i \in EventsOf(c), j \in EventsOf(d) : i < j
        /\ observed = sent
        /\ srv[tasks[c].srv].pc = "accepting"

\* C9: a failed send of the Disconnect event is the connection's only send,
\* puts nothing on the channel and happens only when the receiver is gone; no
\* task sends twice; the step leaves accept loops and other tasks as they
\* were; and the task does nothing afterwards.
C9_SendFailureIsLocal ==
    /\ [](\A c \in TaskIds :
            /\ tasks[c].sends <= 1
            /\ tasks[c].pc = "send_failed" =>
                  tasks[c].sends = 1 /\ EventsOf(c) = {} /\ ~ReceiverAlive)
    /\ [][\A c \in TaskIds :
            (tasks[c].pc = "link_start" /\ tasks'[c].pc = "send_failed") =>
                /\ srv' = srv
                /\ OthersUnchanged(c)
                /\ sent' = sent /\ chan' = chan]_vars
    /\ [][\A c \in TaskIds :
            tasks[c].pc = "send_failed" => tasks'[c] = tasks[c]]_vars

\* A send failed while the task's listener went on accepting and a sibling's
\* link was still running.
C9_Witness ==
    \E c, d \in TaskIds :
        /\ tasks[c].pc = "send_failed"
        /\ tasks[d].pc = "link_start"
        /\ tasks[c].srv = tasks[d].srv
        /\ srv[tasks[c].srv].pc = "accepting"

\* Server::start has returned an error before its loop: from the bind, or
\* from the resolution of the TLS material.
FailedPcs == {"bind_failed", "failed"}

\* C10: a listener whose bind or TLS resolution failed has accepted nothing
\* and stays failed; a listener whose TLS material does not resolve never
\* accepts; and the failing step changes no other listener, no task, and
\* neither the router nor the caller of Broker::start.
C10_ListenerFailureIsLocal ==
    /\ [](\A l \in Listeners :
            /\ srv[l].pc \in FailedPcs => srv[l].count = 0 /\ TasksOf(l) = {}
            /\ ~tls(backend, servers[l], files).ok =>
                  srv[l].pc \in {"unspawned", "starting", "runtime_panicked"} \cup FailedPcs)
    /\ [][\A l \in Listeners : srv[l].pc \in FailedPcs => srv'[l] = srv[l]]_vars
    /\ [][\A l \in Listeners :
            (srv[l].pc = "starting" /\ srv'[l].pc \in FailedPcs) =>
                /\ \A k \in Listeners \ {l} : srv'[k] = srv[k]
                /\ UNCHANGED <<brokerVars, routerVars, tasks>>]_vars

\* One listener failed to resolve its TLS material; the other accepted a
\* connection and served it, the router runs and Broker::start is blocked.
C10_Witness ==
    \E l, k \in Listeners :
        /\ srv[l].pc = "failed" /\ ~tls(backend, servers[l], files).ok
        /\ srv[k].pc = "accepting" /\ srv[k].count = 1
        /\ \E c \in TasksOf(k) : tasks[c].pc = "returned_ok"
        /\ routerState = "running"
        /\ brokerPc = "blocked"

\* No field of certificate material (certificate, key, bundle, passphrase) is
\* configured.
NoTlsMaterial(cfg) ==
    /\ cfg.cert_path = None /\ cfg.key_path = None
    /\ cfg.pkcs12_path = None /\ cfg.pkcs12_pass = None

\* The listener's Server::start has resolved its TLS material.
Resolved(l) == srv[l].pc \in {"accepting", "failed", "dead"}

\* C11: for a listener with no certificate material configured, TLS resolution
\* succeeds with no acceptor on either backend, the listener goes on to accept,
\* and every connection accepted on it is spawned without an acceptor and,
\* once its task runs, is with a Connector, never having been in a TLS
\* handshake.
C11_PlaintextWithoutMaterial ==
    \A l \in Listeners :
        NoTlsMaterial(servers[l]) =>
            /\ tls(backend, servers[l], files) = Ok(None)
            /\ Resolved(l) => srv[l].pc = "accepting" /\ srv[l].acceptor = None
            /\ \A c \in TasksOf(l) :
                  /\ tasks[c].acceptor = None
                  /\ tasks[c].pc \in {"spawned", "link_new"}
                  /\ tasks[c].connector <=> tasks[c].pc = "link_new"

\* A listener without material, over a filesystem that holds good files, has
\* accepted two connections and both are with their Connector.
C11_Witness ==
    \E l \in Listeners :
        /\ NoTlsMaterial(servers[l])
        /\ backend = "use-native-tls"
        /\ \A p \in Paths \ {"missing.p12"} : files[p] = "good"
        /\ srv[l].count = 2
        /\ \A c \in TasksOf(l) : tasks[c].pc = "link_new" /\ tasks[c].connector

\* The path of the server certificate in the settings a backend looks at: the
\* PEM certificate, or the PKCS#12 bundle.
CertificatePath(b, cfg) ==
    IF b = "use-rustls" THEN cfg.cert_path ELSE cfg.pkcs12_path

\* The backend opens the file of CertificatePath: the PEM backend whenever the
\* path is configured, the PKCS#12 backend when the passphrase is, too.
ReadsCertificate(b, cfg) ==
    /\ CertificatePath(b, cfg) # None
    /\ b = "use-native-tls" => cfg.pkcs12_pass # None

\* What the claim of C12 says of listener l: a missing certificate file gives
\* ServerCertNotFound, a malformed one InvalidServerCert, and in both cases the
\* listener fails: it has no acceptor and accepts nothing.
CertErrorsOf(l) ==
    LET kind == files[CertificatePath(backend, servers[l])]
        r == tls(backend, servers[l], files)
    IN /\ kind = "missing" => r = Err("ServerCertNotFound")
       /\ kind = "malformed" => r = Err("InvalidServerCert")
       /\ (kind \in {"missing", "malformed"} /\ Resolved(l)) =>
              /\ srv[l].pc = "failed" /\ srv[l].acceptor = None
              /\ TasksOf(l) = {}

\* C12, as stated: whenever a certificate path is configured, a missing file
\* gives ServerCertNotFound and a malformed one InvalidServerCert, and neither
\* an acceptor nor a plaintext listener.
C12_CertPathErrors ==
    \A l \in Listeners :
        CertificatePath(backend, servers[l]) # None => CertErrorsOf(l)

\* C12, amended: the same, whenever the backend reads the certificate file:
\* on the PKCS#12 backend, when the passphrase is configured as well.
C12_CertErrorsWhenRead ==
    \A l \in Listeners :
        ReadsCertificate(backend, servers[l]) => CertErrorsOf(l)

\* The PKCS#12 backend found no file at the bundle's path, and the listener
\* has failed on it.
C12_Witness ==
    \E l \in Listeners :
        /\ backend = "use-native-tls"
        /\ ReadsCertificate(backend, servers[l])
        /\ files[servers[l].pkcs12_path] = "missing"
        /\ srv[l].pc = "failed"
        /\ tls(backend, servers[l], files) = Err("ServerCertNotFound")

\* C13: Broker::start returns Ok from nowhere but its wait for the interrupt
\* signal; while it waits it can only go on waiting or take the signal, which
\* it always can; the step that returns changes no listener, no task and
\* nothing of the router or its channel; the process ends only once start
\* has returned, in a step that changes none of these either; and after it no
\* step is taken, so a connection that is live then stays as it is, with no
\* Disconnect event sent.
C13_ReturnsOnSignalOnly ==
    /\ [][(brokerPc # "returned_ok" /\ brokerPc' = "returned_ok") =>
            /\ brokerPc = "blocked"
            /\ UNCHANGED <<srv, tasks, routerVars, localSent, exited>>]_vars
    /\ [][brokerPc = "blocked" => brokerPc' \in {"blocked", "returned_ok"}]_vars
    /\ [](brokerPc = "blocked" => ENABLED CtrlC /\ ~exited)
    /\ [][exited' # exited =>
            /\ brokerPc \in EndedPcs
            /\ UNCHANGED <<srv, tasks, routerVars, localSent, brokerVars>>]_vars
    /\ [][~exited]_vars
    /\ [](exited =>
            \A c \in TaskIds :
                tasks[c].pc \in LiveTaskPcs => tasks[c].sends = 0 /\ EventsOf(c) = {})

\* Broker::start has returned on the signal and the process has ended while a
\* connection was in its session on a listener that was accepting; nothing
\* was sent for it.
C13_Witness ==
    /\ brokerPc = "returned_ok"
    /\ exited
    /\ routerState = "running"
    /\ \E c \in TaskIds :
          /\ tasks[c].pc = "link_start"
          /\ srv[tasks[c].srv].pc = "accepting"
          /\ EventsOf(c) = {}

\* The last call of Broker::start ended in an error: returned, or a panic.
StartFailed == brokerPc \in {"returned_err", "runtime_panicked", "panicked"}

\* C14: Broker::start returns an error only from a spawn, of the router with
\* every listener unspawned or of a listener, and the step starts nothing;
\* once it has returned the error the call is over, a listener not spawned
\* by then is never spawned, and start neither waits for the signal nor
\* returns Ok.
C14_SpawnFailureAborts ==
    /\ [][(brokerPc # "returned_err" /\ brokerPc' = "returned_err") =>
            /\ brokerPc \in {"new", "spawning"}
            /\ brokerPc = "new" => \A l \in Listeners : srv[l].pc = "unspawned"
            /\ brokerPc = "spawning" => \E l \in Listeners : srv[l].pc = "unspawned"
            /\ UNCHANGED <<srv, tasks>>]_vars
    /\ [][StartFailed =>
            /\ StartFailed'
            /\ \A l \in Listeners :
                  srv[l].pc = "unspawned" => srv'[l].pc = "unspawned"]_vars
    /\ [](StartFailed =>
            /\ ~ENABLED AwaitSignal /\ ~ENABLED CtrlC
            /\ \A l \in Listeners : ~ENABLED SpawnServer(l))

\* The spawn of the second listener failed: start has returned the error, that
\* listener is not started, and the first one serves a connection.
C14_Witness ==
    /\ brokerPc = "returned_err"
    /\ routerState = "running"
    /\ \E l, k \in Listeners :
          /\ srv[l].pc = "unspawned"
          /\ srv[k].pc = "accepting"
          /\ \E c \in TasksOf(k) : tasks[c].pc = "link_start"

\* C15: a listener in its accept loop can accept the next connection whatever
\* its tasks are doing; an iteration of the loop adds the new task and leaves
\* every task there is as it was; and a step of a task leaves every accept
\* loop where it was.
C15_AcceptNeverWaitsOnTasks ==
    /\ [](\A l \in Listeners :
            (ProcessAlive /\ AtAccept(l) /\ ProducersLeft) => ENABLED Accept(l))
    /\ [][\A l \in Listeners :
            (AtAccept(l) /\ srv'[l].pc = "accepting" /\ srv'[l] # srv[l]) =>
                /\ srv'[l].count = srv[l].count + 1
                /\ tasks' = Append(tasks, NewTask(l, srv[l].acceptor))]_vars
    /\ [][\A c \in TaskIds :
            (tasks[c].pc \in LiveTaskPcs /\ tasks'[c] # tasks[c] /\
             tasks'[c].pc # "abandoned") => srv' = srv]_vars

\* The first connection of a TLS listener is still in its TLS handshake; the
\* listener has accepted a second one since, which is in its session.
C15_Witness ==
    \E c, d \in TaskIds :
        /\ c < d /\ tasks[c].srv = tasks[d].srv
        /\ tasks[c].pc = "tls_accept"
        /\ tasks[d].pc = "link_start"
        /\ srv[tasks[c].srv].count = 2

\* C16: the router is in the Broker or in its thread, never both and never in
\* a second thread: its context starts once, in the step that moves it out of
\* the Broker, with every listener still unspawned, and a context that ended
\* is never started again; what the router has processed grows only by the
\* head of its channel; and a call of start that finds no router in the Broker
\* fails, spawning nothing and changing neither router, listener nor task.
C16_OneRouterContext ==
    /\ [](brokerRouter <=> routerState = "owned")
    /\ [](\A l \in Listeners : srv[l].pc # "unspawned" => ~brokerRouter)
    /\ [][routerState' # routerState =>
            \/ /\ routerState = "owned" /\ brokerPc = "new"
               /\ brokerRouter /\ ~brokerRouter'
               /\ \A l \in Listeners : srv[l].pc = "unspawned"
            \/ routerState = "running" /\ routerState' = "stopped"]_vars
    /\ [][observed' # observed =>
            /\ routerState = "running" /\ chan # <<>>
            /\ observed' = Append(observed, Head(chan))]_vars
    /\ [][(brokerPc \in EndedPcs /\ brokerPc' # brokerPc) =>
            /\ ~brokerRouter
            /\ brokerPc' = "panicked"
            /\ UNCHANGED <<brokerRouter, routerVars, srv, tasks>>]_vars
    /\ [](brokerPc \in EndedPcs => (ProcessAlive <=> ENABLED StartAgain))
    /\ [][brokerPc = "panicked" => brokerPc' = "panicked"]_vars

\* start was called again after it had returned on the signal: the call
\* failed, the router of the first call runs, and a listener it spawned has
\* handed the router a connection's event.
C16_Witness ==
    /\ brokerPc = "panicked"
    /\ routerState = "running"
    /\ \A l \in Listeners : srv[l].pc # "unspawned"
    /\ \E i \in 1..Len(observed) : observed[i].kind = "Disconnect"

\* C17: a listener's acceptor is set in one step only, the one that binds and
\* resolves, before anything is accepted; a listener that has resolved never
\* resolves again; an accepting listener holds what Server::tls returned for
\* its settings; every task is spawned with the acceptor of its listener; and
\* every connection starts with a TLS handshake if and only if its listener
\* holds an acceptor, so all connections of a listener start the same way.
C17_ResolvedOnce ==
    /\ [][\A l \in Listeners :
            (srv'[l].acceptor # srv[l].acceptor \/
             (srv[l].pc = "starting" /\ srv'[l].pc # "starting")) =>
                /\ srv[l].pc = "starting" /\ srv[l].count = 0 /\ TasksOf(l) = {}
                /\ srv'[l].pc \in {"accepting", "runtime_panicked"} \cup FailedPcs
                /\ srv'[l].acceptor # srv[l].acceptor => srv'[l].pc = "accepting"]_vars
    /\ [][\A l \in Listeners : Resolved(l) => Resolved(l)']_vars
    /\ [](\A l \in Listeners :
            srv[l].pc = "accepting" => Ok(srv[l].acceptor) = tls(backend, servers[l], files))
    /\ [][Len(tasks') = Len(tasks) + 1 =>
            LET t == tasks'[Len(tasks')] IN
                /\ srv'[t.srv].acceptor = srv[t.srv].acceptor
                /\ t.pc = "spawned" /\ t.acceptor = srv[t.srv].acceptor]_vars
    /\ [][\A c \in TaskIds :
            (tasks[c].pc = "spawned" /\ tasks'[c].pc \notin {"spawned", "abandoned"}) =>
                tasks'[c].pc = IF srv[tasks[c].srv].acceptor # None
                               THEN "tls_accept" ELSE "link_new"]_vars
    /\ [](\A c \in TaskIds :
            /\ tasks[c].acceptor = srv[tasks[c].srv].acceptor
            /\ tasks[c].pc \in {"tls_accept", "tls_failed"} =>
                  srv[tasks[c].srv].acceptor # None)

\* A listener that resolved an acceptor with client authentication has
\* accepted two connections; both began with a TLS handshake.
C17_Witness ==
    \E l \in Listeners :
        /\ backend = "use-rustls" /\ servers[l].ca_path # None
        /\ srv[l].acceptor # None
        /\ srv[l].count = 2
        /\ \E c, d \in TasksOf(l) :
              c < d /\ tasks[c].pc = "tls_failed" /\ tasks[d].pc = "tls_accept"

\* The checks of the PEM backend on settings with a certificate path, in the
\* order of lib.rs:282-314: whether each fails, and the error it reports.
PemChecks(cfg, fs) ==
    LET cert == fs[cfg.cert_path]
        key == IF cfg.key_path = None THEN None ELSE fs[cfg.key_path]
        ca == IF cfg.ca_path = None THEN None ELSE fs[cfg.ca_path]
    IN << [fails |-> cert = "missing", error |-> "ServerCertNotFound"],
          [fails |-> cert \in {"unreadable", "malformed"}, error |-> "InvalidServerCert"],
          [fails |-> cfg.key_path = None, error |-> "ServerKeyRequired"],
          [fails |-> key = "missing", error |-> "ServerKeyNotFound"],
          [fails |-> key \in {"unreadable", "malformed", "empty"},
           error |-> "InvalidServerKey"],
          [fails |-> ca = "missing", error |-> "CaFileNotFound"],
          [fails |-> ca \in {"unreadable", "malformed"}, error |-> "InvalidCACert"] >>

Failing(checks) == {i \in DOMAIN checks : checks[i].fails}

FirstFailing(checks) ==
    CHOOSE i \in Failing(checks) : \A j \in Failing(checks) : i <= j

\* C18: on the PEM backend, for a listener with a certificate path, resolution
\* returns the error of the first check that fails, in the order above, when
\* one does; it returns an acceptor only when none does; the seven errors are
\* different from one another; and the listener that has resolved holds an
\* acceptor only when no check failed.
C18_FirstFailingCheck ==
    \A l \in Listeners :
        (backend = "use-rustls" /\ servers[l].cert_path # None) =>
            LET checks == PemChecks(servers[l], files)
                r == tls(backend, servers[l], files)
            IN /\ Failing(checks) # {} => r = Err(checks[FirstFailing(checks)].error)
               /\ r.ok => Failing(checks) = {} /\ r.val = "Acceptor"
               /\ \A i, j \in DOMAIN checks :
                     checks[i].error = checks[j].error => i = j
               /\ Resolved(l) =>
                     IF Failing(checks) # {}
                     THEN srv[l].pc = "failed" /\ srv[l].acceptor = None
                     ELSE srv[l].acceptor # None => srv[l].acceptor = "Acceptor"

\* A listener failed on its key file, which holds no key, though the
\* trusted-CA file of its settings is missing as well.
C18_Witness ==
    \E l \in Listeners :
        /\ backend = "use-rustls"
        /\ servers[l].cert_path # None /\ files[servers[l].cert_path] = "good"
        /\ servers[l].key_path # None /\ files[servers[l].key_path] = "empty"
        /\ servers[l].ca_path # None /\ files[servers[l].ca_path] = "missing"
        /\ srv[l].pc = "failed"
        /\ tls(backend, servers[l], files) = Err("InvalidServerKey")

\* C19: the step in which accept fails ends the listener's loop and abandons
\* every live task of the listener, leaving its finished tasks, the other
\* listeners and their tasks, the router, its channel and the caller of start
\* as they were; from then on the listener accepts nothing and neither it nor
\* any of its tasks changes; and an abandoned task has sent no Disconnect
\* event and never sends one.
C19_AcceptErrorEndsListener ==
    /\ [][\A l \in Listeners :
            (srv[l].pc = "accepting" /\ srv'[l].pc = "dead") =>
                /\ Len(tasks') = Len(tasks)
                /\ \A c \in TaskIds :
                      tasks'[c] = IF tasks[c].srv = l /\ tasks[c].pc \in LiveTaskPcs
                                  THEN [tasks[c] EXCEPT !.pc = "abandoned"]
                                  ELSE tasks[c]
                /\ \A k \in Listeners \ {l} : srv'[k] = srv[k]
                /\ UNCHANGED <<brokerVars, routerVars>>]_vars
    /\ [][\A l \in Listeners :
            srv[l].pc = "dead" =>
                /\ srv'[l] = srv[l]
                /\ \A c \in TasksOf(l) : tasks'[c] = tasks[c]
                /\ \A c \in 1..Len(tasks') : tasks'[c].srv = l => c \in TasksOf(l)]_vars
    /\ [](\A l \in Listeners :
            srv[l].pc = "dead" =>
                /\ ~ENABLED Accept(l)
                /\ \A c \in TasksOf(l) : tasks[c].pc \notin LiveTaskPcs)
    /\ [](\A c \in TaskIds :
            tasks[c].pc = "abandoned" =>
                /\ srv[tasks[c].srv].pc = "dead"
                /\ tasks[c].sends = 0 /\ EventsOf(c) = {})

\* The accept of one listener failed while a connection was in its session
\* there: the connection is abandoned, registered with the router and without
\* an event; the other listener accepts, the router runs, start is blocked.
C19_Witness ==
    \E l, k \in Listeners :
        /\ srv[l].pc = "dead"
        /\ \E c \in TasksOf(l) :
              /\ tasks[c].pc = "abandoned"
              /\ tasks[c].id \in registered
              /\ EventsOf(c) = {}
        /\ srv[k].pc = "accepting"
        /\ routerState = "running"
        /\ brokerPc = "blocked"

\* The settings lack what the backend looks at first: the bundle path or the
\* passphrase on the PKCS#12 backend, the certificate path on the PEM backend.
LacksMaterial(b, cfg) ==
    IF b = "use-native-tls"
    THEN cfg.pkcs12_path = None \/ cfg.pkcs12_pass = None
    ELSE cfg.cert_path = None

\* C20: resolution of settings that lack the bundle path or the passphrase
\* (PKCS#12 backend) or the certificate path (PEM backend) returns no acceptor
\* and no error, whatever else is configured and whatever the files hold; the
\* listener then accepts, and its connections go to their Connector without a
\* TLS handshake; and no resolution returns ServerCertRequired.
C20_PartialMaterialIsPlaintext ==
    \A l \in Listeners :
        /\ tls(backend, servers[l], files) # Err("ServerCertRequired")
        /\ LacksMaterial(backend, servers[l]) =>
              /\ tls(backend, servers[l], files) = Ok(None)
              /\ Resolved(l) => srv[l].pc = "accepting" /\ srv[l].acceptor = None
              /\ \A c \in TasksOf(l) : tasks[c].pc \notin {"tls_accept", "tls_failed"}

\* A PKCS#12 listener with a bundle path and no passphrase, and a PEM listener
\* with key and CA paths and no certificate path, serve a connection in
\* plaintext.
C20_Witness ==
    \E l \in Listeners :
        /\ \/ /\ backend = "use-native-tls"
              /\ servers[l].pkcs12_path # None /\ servers[l].pkcs12_pass = None
           \/ /\ backend = "use-rustls"
              /\ servers[l].cert_path = None
              /\ servers[l].key_path # None /\ servers[l].ca_path # None
        /\ srv[l].pc = "accepting" /\ srv[l].acceptor = None
        /\ \E c \in TasksOf(l) : tasks[c].pc = "link_new" /\ tasks[c].connector

====
